---- MODULE Spec2Model ----
(***************************************************************************)
(* notecart: the browser client of static/js/api.js (Transport,            *)
(* Notification, CatalogController) and static/js/dashboard.js             *)
(* (NotesController), as a state machine.                                  *)
(*                                                                         *)
(* One JavaScript task (an event handler up to its first await, or the     *)
(* continuation after an await) is one action.  A fetch in flight is a     *)
(* record of the bag inflight: the server (or the network) answers it in   *)
(* one step and the awaiting task resumes on the answer in a later one.    *)
(* The HTTP server is an external collaborator and is modelled from the    *)
(* resource table of the specification.                                    *)
(*                                                                         *)
(* TLA+ strings are ASCII: the user-visible Russian texts of the source    *)
(* are written transliterated, each with its original in a comment.        *)
(***************************************************************************)
EXTENDS Integers, Sequences, FiniteSets, Bags, TLC

VARIABLES
    \* api.js, the Transport probe (specification SpecTransport)
    tNet,           \* what the network gives the call's fetch
    tCall,          \* the call made: its fetch arguments, or NoCall
    tOut,           \* the call's promise: pending, fulfilled(value), rejected
    \* the network and the server (external)
    inflight,       \* bag of fetches awaited by a task
    serverNotes,    \* the server's notes, in id order
    noteSeq,        \* the last note id the server gave out
    serverCart,     \* the server's cart: product id -> quantity
    \* api.js, showToast
    toastText, toastVisible, toastTimers,
    \* dashboard.js, NotesController
    editingId, modalHidden, modalShow, modalTimers, editorTitle, form,
    searchNotes, notesList, adminLink,
    \* api.js, CatalogController
    searchProducts, productsGrid, cartItems, cartTotal,
    \* history: the number of user events so far, and the ids of the notes
    \* whose deletion the page has seen succeed
    events, gone,
    \* which page's DOMContentLoaded handler has run
    page,
    \* history: the handlers that have resumed on a Result with ok false
    failed,
    \* the modal of the specification's state machine, which opens and closes
    \* at once: TRUE while it is Closed
    instantHidden

transportVars == <<tNet, tCall, tOut>>
serverVars == <<serverNotes, noteSeq, serverCart>>
toastVars == <<toastText, toastVisible, toastTimers>>
modalVars == <<modalHidden, modalShow, modalTimers, editorTitle, instantHidden>>
notesVars == <<editingId, modalVars, form, searchNotes, notesList, adminLink>>
catalogVars == <<searchProducts, productsGrid, cartItems, cartTotal>>
vars == <<transportVars, inflight, serverVars, toastVars, notesVars, catalogVars, events, gone, page, failed>>

(***************************************************************************)
(* Bounds of the model.                                                    *)
(***************************************************************************)
MaxInflight == 2        \* fetches in flight at once
MaxNotes == 2           \* note ids the server gives out
MaxModalTimers == 2     \* pending modal timers
MaxToastTimers == 2     \* pending toast timers
MaxQty == 2             \* quantity of one cart line
MaxEvents == 4          \* user events (clicks, inputs) in one run

(***************************************************************************)
(* JavaScript values.  null/undefined is the string Null so that a field   *)
(* keeps one TLA+ type; an object is a function from field names.          *)
(***************************************************************************)
Null == "<null>"
\* null where an object is expected
NullObject == [null |-> TRUE]
EmptyObject == [f \in {} |-> TRUE]
Has(obj, f) == f \in DOMAIN obj
\* a || b on a string or null a
OrElse(a, b) == IF a = Null \/ a = "" THEN b ELSE a
\* if(a) on a string or null a
Truthy(a) == a # Null /\ a # ""
\* Object.assign(target, source): source's fields win
ObjectAssign(target, source) ==
    [f \in (DOMAIN target) \cup (DOMAIN source) |->
        IF f \in DOMAIN source THEN source[f] ELSE target[f]]

(***************************************************************************)
(* Transport: api.js, request and its shorthands.                          *)
(***************************************************************************)
NoData == [kind |-> "none"]
JsonData(v) == [kind |-> "object", value |-> v]
FormDataOf(v) == [kind |-> "FormData", value |-> v]

\* JSON.stringify(data), as the text the server parses back
JSONStringify(v) == [json |-> v]

\* opts of request (api.js 3-9)
RequestOpts(method, data) ==
    IF data.kind = "none"
    THEN [method |-> method, headers |-> [Accept |-> "application/json"]]
    ELSE IF data.kind = "FormData"
    THEN [method |-> method, headers |-> [Accept |-> "application/json"],
          body |-> data]
    ELSE [method |-> method,
          headers |-> [Accept |-> "application/json",
                       ContentType |-> "application/json"],
          body |-> JSONStringify(data.value)]

\* fetch('/api'+path, opts)
FetchArgs(path, method, data) ==
    [url |-> <<"/api">> \o path, opts |-> RequestOpts(method, data)]

\* what the network gives a fetch
NetError == [kind |-> "neterr"]
HttpResponse(status, body) == [kind |-> "http", status |-> status, body |-> body]
JsonBody(v) == [parses |-> TRUE, value |-> v]
MalformedBody == [parses |-> FALSE]

\* Response.ok
ResOk(status) == status >= 200 /\ status <= 299

\* res.json().catch(()=>({}))
JsonOrEmpty(body) == IF body.parses THEN body.value ELSE EmptyObject

Pending == [state |-> "pending"]
Rejected == [state |-> "rejected"]
Fulfilled(v) == [state |-> "fulfilled", value |-> v]

\* a plausible slip: the payload's own ok survives
SettlePayloadWins(net) ==
    IF net.kind = "neterr" THEN Rejected
    ELSE Fulfilled(ObjectAssign([ok |-> ResOk(net.status)], JsonOrEmpty(net.body)))

\* a plausible slip: a body that does not parse fails the call
SettleNoFallback(net) ==
    IF net.kind = "neterr" \/ ~net.body.parses THEN Rejected
    ELSE Fulfilled(ObjectAssign(net.body.value, [ok |-> ResOk(net.status)]))

\* request after its awaits (api.js 10-12): a fetch that rejects rejects the call
Settle(net) ==
    IF net.kind = "neterr" THEN Rejected
    ELSE LET json == JsonOrEmpty(net.body)
         IN Fulfilled(IF ResOk(net.status)
                      THEN ObjectAssign(json, [ok |-> TRUE])
                      ELSE ObjectAssign(json, [ok |-> FALSE]))

\* api.get / api.post / api.put / api.del (api.js 15-18)
ApiGet(p) == FetchArgs(p, "GET", NoData)
ApiPost(p, d) == FetchArgs(p, "POST", d)
ApiPut(p, d) == FetchArgs(p, "PUT", d)
ApiDel(p) == FetchArgs(p, "DELETE", NoData)

(***************************************************************************)
(* Fetches in flight.  A task that awaits a call is a record: h names the  *)
(* continuation, arg is the local it captured, fetch the fetch arguments   *)
(* and net the network's answer once there is one.                         *)
(***************************************************************************)
NoResp == [kind |-> "pending"]
Task(h, arg, f) == [h |-> h, arg |-> arg, fetch |-> f, net |-> NoResp]
Await(bag, t) == bag (+) SetToBag({t})
Without(bag, r) == bag (-) SetToBag({r})
Awaiting == {r \in BagToSet(inflight) : r.net = NoResp}
Answered == {r \in BagToSet(inflight) : r.net # NoResp}
Answer(r, net) == Await(Without(inflight, r), [r EXCEPT !.net = net])
\* the Result a task resumes on
ResultOf(r) == Settle(r.net).value
Resolves(r) == Settle(r.net).state = "fulfilled"
Method(r) == r.fetch.opts.method
Url(r) == r.fetch.url

(***************************************************************************)
(* Notification: api.js, showToast.  Every call uses the default timeout,  *)
(* so the pending timers fire in the order they were set: a count.         *)
(***************************************************************************)
ToastTimeout == 2000

\* a plausible slip that is a fix: a new toast cancels the pending timers
showToastCancelling(msg) ==
    /\ toastText' = msg
    /\ toastVisible' = TRUE
    /\ toastTimers' = 1

showToast(msg) ==
    /\ toastText' = msg
    /\ toastVisible' = TRUE
    /\ toastTimers' = toastTimers + 1

ToastRoom == toastTimers < MaxToastTimers

\* setTimeout(()=> t.style.display='none', timeout) fires
ToastTimerFires ==
    /\ toastTimers > 0
    /\ toastTimers' = toastTimers - 1
    /\ toastVisible' = FALSE
    /\ UNCHANGED <<events, gone, page, failed>>
    /\ UNCHANGED <<transportVars, inflight, serverVars, toastText, notesVars,
                   catalogVars>>

(***************************************************************************)
(* NotesController: dashboard.js.                                          *)
(***************************************************************************)
TitleNew == "Novaya zametka"                \* 'Новая заметка'
TitleEdit == "Redaktirovat zametku"         \* 'Редактировать заметку'
ToastUpdated == "Zametka obnovlena"         \* 'Заметка обновлена'
ToastCreated == "Zametka sozdana"           \* 'Заметка создана'
ToastDeleted == "Zametka udalena"           \* 'Заметка удалена'
PreviewLen == 150
ShowDelay == 10
HideDelay == 300

\* the form after noteForm.reset(): the fields' defaults
EmptyForm == [title |-> "", content |-> "", tags |-> ""]
\* what the user types into the open form
TypedForm == [title |-> "my note", content |-> "c1", tags |-> "g1"]
\* what the user types into the search box
Queries == {"", "first note"}

\* encodeURIComponent on the strings of the model: a space is escaped
EncodeURIComponent(q) == IF q = "first note" THEN "first%20note" ELSE q
DecodeURIComponent(e) == IF e = "first%20note" THEN "first note" ELSE e

\* '/notes'+(q?`?q=${encodeURIComponent(q)}`:'')
NotesPath(q) ==
    IF Truthy(q) THEN <<"/notes", "?q=", EncodeURIComponent(q)>> ELSE <<"/notes">>

\* x.id == id, a number against the string of a data-id attribute
LooseEq(n, s) == ToString(n) = s

\* the delay of a pending modal timer
Delay(kind) == IF kind = "show" THEN ShowDelay ELSE HideDelay
ModalTimerRoom == Len(modalTimers) < MaxModalTimers
InflightRoom == BagCardinality(inflight) < MaxInflight
EventRoom == events < MaxEvents

\* The overlay of the open modal covers the page: the controls of the page
\* take clicks while the modal is hidden, those of the modal while it is not.
PageInteractive == modalHidden
ModalInteractive == ~modalHidden

\* dashboard.js 13-18
openModal(title) ==
    /\ editorTitle' = title
    /\ modalHidden' = FALSE
    /\ instantHidden' = FALSE
    /\ modalTimers' = Append(modalTimers, "show")
    /\ UNCHANGED modalShow

\* dashboard.js 20-25
closeModalFn ==
    /\ modalShow' = FALSE
    /\ modalTimers' = Append(modalTimers, "hidden")
    /\ instantHidden' = TRUE
    /\ editingId' = Null
    /\ form' = EmptyForm
    /\ UNCHANGED <<modalHidden, editorTitle>>

\* a plausible slip: a content of exactly PreviewLen is cut as well
PreviewAtLeast(content) ==
    IF Len(content) >= PreviewLen
    THEN SubSeq(content, 1, PreviewLen) \o "..."
    ELSE content

\* the preview of a card (dashboard.js 40)
Preview(content) ==
    IF Len(content) > PreviewLen
    THEN SubSeq(content, 1, PreviewLen) \o "..."
    ELSE content

\* the date of a card (dashboard.js 41): the notes of the model carry no
\* updated_at, and a note that does is shown with its formatted date
CardDate(n) == IF Has(n, "updated_at") THEN <<"ru-RU", n.updated_at>> ELSE <<>>

Card(n) == [h3 |-> n.title, p |-> Preview(n.content), date |-> CardDate(n),
            edit |-> ToString(n.id), del |-> ToString(n.id)]

NoCards == [placeholder |-> FALSE, cards |-> <<>>]
PlaceholderOnly == [placeholder |-> TRUE, cards |-> <<>>]

\* what loadNotes leaves in notesList for the Result res (dashboard.js 29-53)
RenderNotes(res) ==
    IF ~Has(res, "notes") \/ Len(res.notes) = 0
    THEN PlaceholderOnly
    ELSE [placeholder |-> FALSE,
          cards |-> [i \in 1..Len(res.notes) |-> Card(res.notes[i])]]

\* the data-id values of the rendered edit / delete buttons
RenderedIds == {notesList.cards[i].edit : i \in 1..Len(notesList.cards)}

\* loadNotes(q) up to its await, from a task that leaves bag in flight
loadNotes(bag, q) ==
    inflight' = Await(bag, Task("loadNotes", Null, ApiGet(NotesPath(q))))

\* everything but the NotesController's own state, the toast and the fetches
aside == <<transportVars, serverVars, catalogVars>>

\* newNoteBtn click (dashboard.js 56-60)
NewNoteClick ==
    /\ EventRoom
    /\ PageInteractive
    /\ ModalTimerRoom
    /\ editingId' = Null
    /\ form' = EmptyForm
    /\ openModal(TitleNew)
    /\ events' = events + 1 /\ UNCHANGED <<gone, page, failed>>
    /\ UNCHANGED <<aside, inflight, toastVars, searchNotes, notesList, adminLink>>

\* the user fills the fields of the open form
TypeForm ==
    /\ EventRoom
    /\ ModalInteractive
    /\ form # TypedForm
    /\ form' = TypedForm
    /\ events' = events + 1 /\ UNCHANGED <<gone, page, failed>>
    /\ UNCHANGED <<aside, inflight, toastVars, editingId, modalVars, searchNotes,
                   notesList, adminLink>>

\* Object.fromEntries(new FormData(noteForm))
FormEntries == form

\* a plausible slip: the update goes out as a create as well
SubmitTaskAlsoCreates ==
    Task("post", Null, ApiPost(<<"/notes">>, JsonData(FormEntries)))

\* the call the submit handler awaits (dashboard.js 66-67, 73-74)
SubmitTask ==
    IF Truthy(editingId)
    THEN Task("put", Null, ApiPut(<<"/notes/", editingId>>, JsonData(FormEntries)))
    ELSE Task("post", Null, ApiPost(<<"/notes">>, JsonData(FormEntries)))

\* noteForm submit, up to its await (dashboard.js 62-67, 73-74)
Submit ==
    /\ EventRoom
    /\ ModalInteractive
    /\ InflightRoom
    /\ inflight' = Await(inflight, SubmitTask)
    /\ events' = events + 1 /\ UNCHANGED <<gone, page, failed>>
    /\ UNCHANGED <<aside, toastVars, notesVars>>

\* noteForm submit after api.put (dashboard.js 68-72)
PutDone(r) ==
    /\ r \in Answered /\ r.h = "put" /\ Resolves(r)
    /\ IF ResultOf(r).ok
       THEN /\ ToastRoom /\ ModalTimerRoom
            /\ showToast(ToastUpdated)
            /\ closeModalFn
            /\ loadNotes(Without(inflight, r), searchNotes)
            /\ UNCHANGED <<events, gone, page, failed>>
            /\ UNCHANGED <<aside, searchNotes, notesList, adminLink>>
       ELSE /\ inflight' = Without(inflight, r)
            /\ failed' = failed \cup {r.h}
            /\ UNCHANGED <<events, gone, page>>
            /\ UNCHANGED <<aside, toastVars, notesVars>>

\* a plausible slip: the create's outcome is not looked at
PostDoneAnyway(r) ==
    /\ r \in Answered /\ r.h = "post" /\ Resolves(r)
    /\ ToastRoom /\ ModalTimerRoom
    /\ showToast(ToastCreated)
    /\ closeModalFn
    /\ loadNotes(Without(inflight, r), searchNotes)
    /\ failed' = IF ResultOf(r).ok THEN failed ELSE failed \cup {r.h}
    /\ UNCHANGED <<events, gone, page>>
    /\ UNCHANGED <<aside, searchNotes, notesList, adminLink>>

\* noteForm submit after api.post (dashboard.js 75-79)
PostDone(r) ==
    /\ r \in Answered /\ r.h = "post" /\ Resolves(r)
    /\ IF ResultOf(r).ok
       THEN /\ ToastRoom /\ ModalTimerRoom
            /\ showToast(ToastCreated)
            /\ closeModalFn
            /\ loadNotes(Without(inflight, r), searchNotes)
            /\ UNCHANGED <<events, gone, page, failed>>
            /\ UNCHANGED <<aside, searchNotes, notesList, adminLink>>
       ELSE /\ inflight' = Without(inflight, r)
            /\ failed' = failed \cup {r.h}
            /\ UNCHANGED <<events, gone, page>>
            /\ UNCHANGED <<aside, toastVars, notesVars>>

\* click on a rendered .edit button, up to its await (dashboard.js 84-86)
EditClick(id) ==
    /\ EventRoom
    /\ PageInteractive
    /\ id \in RenderedIds
    /\ InflightRoom
    /\ inflight' = Await(inflight, Task("edit", id, ApiGet(<<"/notes">>)))
    /\ events' = events + 1 /\ UNCHANGED <<gone, page, failed>>
    /\ UNCHANGED <<aside, toastVars, notesVars>>

\* (all.notes||[]).find(x=>x.id==id): the index of the first match, 0 for none
FindNote(all, id) ==
    LET notes == IF Has(all, "notes") THEN all.notes ELSE <<>>
        hits == {i \in 1..Len(notes) : LooseEq(notes[i].id, id)}
    IN IF hits = {} THEN 0 ELSE CHOOSE i \in hits : \A j \in hits : i <= j

\* the .edit click after api.get('/notes') (dashboard.js 87-94)
EditDone(r) ==
    /\ r \in Answered /\ r.h = "edit" /\ Resolves(r)
    /\ inflight' = Without(inflight, r)
    /\ LET all == ResultOf(r)
           at == FindNote(all, r.arg)
       IN IF at # 0
          THEN /\ ModalTimerRoom
               /\ editingId' = r.arg
               /\ form' = [title |-> all.notes[at].title,
                           content |-> all.notes[at].content,
                           tags |-> OrElse(all.notes[at].tags, "")]
               /\ openModal(TitleEdit)
               /\ UNCHANGED <<events, gone, page, failed>>
               /\ UNCHANGED <<aside, toastVars, searchNotes, notesList, adminLink>>
          ELSE /\ UNCHANGED <<events, gone, page, failed>>
               /\ UNCHANGED <<aside, toastVars, notesVars>>

\* a plausible slip: the confirmation's answer is not looked at
DelClickUnconfirmed(id, confirmed) ==
    /\ EventRoom
    /\ PageInteractive
    /\ id \in RenderedIds
    /\ InflightRoom
    /\ inflight' = Await(inflight, Task("del", id, ApiDel(<<"/notes/", id>>)))
    /\ events' = events + 1 /\ UNCHANGED <<gone, page, failed>>
    /\ UNCHANGED <<aside, toastVars, notesVars>>

\* click on a rendered .del button, up to its await (dashboard.js 96-99);
\* confirm() blocks the page until the user answers
DelClick(id, confirmed) ==
    /\ EventRoom
    /\ PageInteractive
    /\ id \in RenderedIds
    /\ IF ~confirmed
       THEN /\ events' = events + 1 /\ UNCHANGED <<gone, page, failed>>
            /\ UNCHANGED inflight
       ELSE /\ InflightRoom
            /\ inflight' = Await(inflight, Task("del", id, ApiDel(<<"/notes/", id>>)))
            /\ events' = events + 1 /\ UNCHANGED <<gone, page, failed>>
    /\ UNCHANGED <<aside, toastVars, notesVars>>

\* a delete handler that reloads the whole list, whatever the search box holds
DelDoneReloadsAll(r) ==
    /\ r \in Answered /\ r.h = "del" /\ Resolves(r)
    /\ IF ResultOf(r).ok
       THEN /\ ToastRoom
            /\ showToast(ToastDeleted)
            /\ loadNotes(Without(inflight, r), "")
            /\ gone' = gone \cup {r.arg}
            /\ UNCHANGED <<aside, notesVars, events, page, failed>>
       ELSE /\ inflight' = Without(inflight, r)
            /\ failed' = failed \cup {r.h}
            /\ UNCHANGED <<events, gone, page>>
            /\ UNCHANGED <<aside, toastVars, notesVars>>

\* the .del handler after its await (dashboard.js 100-103)
DelDone(r) ==
    /\ r \in Answered /\ r.h = "del" /\ Resolves(r)
    /\ IF ResultOf(r).ok
       THEN /\ ToastRoom
            /\ showToast(ToastDeleted)
            /\ loadNotes(Without(inflight, r), searchNotes)
            /\ gone' = gone \cup {r.arg}
            /\ UNCHANGED <<aside, notesVars, events, page, failed>>
       ELSE /\ inflight' = Without(inflight, r)
            /\ failed' = failed \cup {r.h}
            /\ UNCHANGED <<events, gone, page>>
            /\ UNCHANGED <<aside, toastVars, notesVars>>

\* closeModal / cancelEdit / modalOverlay click (dashboard.js 107-109)
ModalCloseClick ==
    /\ EventRoom
    /\ ModalInteractive
    /\ ModalTimerRoom
    /\ closeModalFn
    /\ events' = events + 1 /\ UNCHANGED <<gone, page, failed>>
    /\ UNCHANGED <<aside, inflight, toastVars, searchNotes, notesList, adminLink>>

\* search input (dashboard.js 111) and loadNotes up to its await (27-28)
SearchNotesInput(q) ==
    /\ EventRoom
    /\ PageInteractive
    /\ InflightRoom
    /\ q # searchNotes
    /\ searchNotes' = q
    /\ loadNotes(inflight, q)
    /\ events' = events + 1 /\ UNCHANGED <<gone, page, failed>>
    /\ UNCHANGED <<aside, toastVars, editingId, modalVars, form, notesList, adminLink>>

\* loadNotes after its await (dashboard.js 29-53)
LoadNotesDone(r) ==
    /\ r \in Answered /\ r.h = "loadNotes" /\ Resolves(r)
    /\ inflight' = Without(inflight, r)
    /\ notesList' = RenderNotes(ResultOf(r))
    /\ UNCHANGED <<events, gone, page, failed>>
    /\ UNCHANGED <<aside, toastVars, editingId, modalVars, form, searchNotes, adminLink>>

\* a plausible slip: any signed-in user is shown the link
MeDoneAnyUser(r) ==
    /\ r \in Answered /\ r.h = "me" /\ Resolves(r)
    /\ inflight' = Without(inflight, r)
    /\ LET res == ResultOf(r)
       IN adminLink' = IF res.ok /\ Has(res, "user") /\ res.user # NullObject
                       THEN "block" ELSE adminLink
    /\ UNCHANGED <<events, gone, page, failed>>
    /\ UNCHANGED <<aside, toastVars, editingId, modalVars, form, searchNotes, notesList>>

\* the admin link check after api.get('/auth/me') (dashboard.js 114-118)
MeDone(r) ==
    /\ r \in Answered /\ r.h = "me" /\ Resolves(r)
    /\ inflight' = Without(inflight, r)
    /\ LET res == ResultOf(r)
       IN adminLink' = IF /\ res.ok
                          /\ Has(res, "user") /\ res.user # NullObject
                          /\ Has(res.user, "role") /\ res.user.role = "admin"
                       THEN "block" ELSE adminLink
    /\ UNCHANGED <<events, gone, page, failed>>
    /\ UNCHANGED <<aside, toastVars, editingId, modalVars, form, searchNotes, notesList>>

\* a pending modal timer fires (dashboard.js 16, 22): a timer fires before
\* every timer set after it with the same or a longer delay
ModalTimerFires(i) ==
    /\ i \in 1..Len(modalTimers)
    /\ \A j \in 1..(i - 1) : Delay(modalTimers[j]) > Delay(modalTimers[i])
    /\ modalTimers' = SubSeq(modalTimers, 1, i - 1)
                        \o SubSeq(modalTimers, i + 1, Len(modalTimers))
    /\ IF modalTimers[i] = "show"
       THEN modalShow' = TRUE /\ UNCHANGED modalHidden
       ELSE modalHidden' = TRUE /\ UNCHANGED modalShow
    /\ UNCHANGED <<events, gone, page, failed>>
    /\ UNCHANGED <<aside, inflight, toastVars, editingId, editorTitle, form,
                   searchNotes, notesList, adminLink, instantHidden>>

\* the awaited call rejects: the task ends there, with nothing to catch it
TaskRejected(r) ==
    /\ r \in Answered /\ ~Resolves(r)
    /\ inflight' = Without(inflight, r)
    /\ UNCHANGED <<events, gone, page, failed>>
    /\ UNCHANGED <<aside, toastVars, notesVars>>

(***************************************************************************)
(* The server and the network, from the resource table of the              *)
(* specification: every answer is computed from the server's state at the  *)
(* moment the request is handled.                                          *)
(***************************************************************************)
front == <<toastVars, notesVars, catalogVars>>

Ok200(payload) == HttpResponse(200, JsonBody(payload))
NotFound404 == HttpResponse(404, JsonBody([error |-> "not found"]))
\* a failure comes with an error message, or with a body that is no JSON
FailBodies == {JsonBody([error |-> "server says no"]), MalformedBody}
\* the failure bodies the notes page is run against
NotesFailBodies == {JsonBody([error |-> "server says no"])}

\* the note the server had when the page was opened
FirstNote == [id |-> 1, title |-> "first note", content |-> "c0", tags |-> Null]

NoteMatches(n, q) == q = "" \/ q = n.title \/ q = n.content \/ q = n.tags
QueryOf(url) == IF Len(url) = 4 THEN DecodeURIComponent(url[4]) ELSE ""
HasNote(idText) == \E i \in 1..Len(serverNotes) : ToString(serverNotes[i].id) = idText

\* GET /notes?q=
ServerListsNotes(r) ==
    /\ r \in Awaiting /\ Method(r) = "GET" /\ Url(r)[2] = "/notes"
    /\ LET q == QueryOf(Url(r))
       IN inflight' = Answer(r, Ok200(
              [notes |-> SelectSeq(serverNotes, LAMBDA n : NoteMatches(n, q))]))
    /\ UNCHANGED <<events, gone, page, failed>>
    /\ UNCHANGED <<transportVars, serverVars, front>>

\* POST /notes
ServerCreatesNote(r) ==
    /\ r \in Awaiting /\ Method(r) = "POST" /\ Url(r) = <<"/api", "/notes">>
    /\ noteSeq < MaxNotes
    /\ noteSeq' = noteSeq + 1
    /\ LET d == r.fetch.opts.body.json
       IN serverNotes' = Append(serverNotes,
              [id |-> noteSeq + 1, title |-> d.title, content |-> d.content,
               tags |-> d.tags])
    /\ inflight' = Answer(r, Ok200(EmptyObject))
    /\ UNCHANGED <<events, gone, page, failed>>
    /\ UNCHANGED <<transportVars, serverCart, front>>

\* PUT /notes/{id}
ServerUpdatesNote(r) ==
    /\ r \in Awaiting /\ Method(r) = "PUT" /\ Url(r)[2] = "/notes/"
    /\ LET d == r.fetch.opts.body.json
           id == Url(r)[3]
       IN IF HasNote(id)
          THEN /\ serverNotes' =
                    [i \in 1..Len(serverNotes) |->
                        IF ToString(serverNotes[i].id) = id
                        THEN [id |-> serverNotes[i].id, title |-> d.title,
                              content |-> d.content, tags |-> d.tags]
                        ELSE serverNotes[i]]
               /\ inflight' = Answer(r, Ok200(EmptyObject))
          ELSE /\ inflight' = Answer(r, NotFound404)
               /\ UNCHANGED serverNotes
    /\ UNCHANGED <<events, gone, page, failed>>
    /\ UNCHANGED <<transportVars, noteSeq, serverCart, front>>

\* DELETE /notes/{id}
ServerDeletesNote(r) ==
    /\ r \in Awaiting /\ Method(r) = "DELETE" /\ Url(r)[2] = "/notes/"
    /\ LET id == Url(r)[3]
       IN IF HasNote(id)
          THEN /\ serverNotes' = SelectSeq(serverNotes, LAMBDA n : ToString(n.id) # id)
               /\ inflight' = Answer(r, Ok200(EmptyObject))
          ELSE /\ inflight' = Answer(r, NotFound404)
               /\ UNCHANGED serverNotes
    /\ UNCHANGED <<events, gone, page, failed>>
    /\ UNCHANGED <<transportVars, noteSeq, serverCart, front>>

\* GET /auth/me: the session is an administrator's, a user's, or nobody's;
\* the payload may lack the user, or the user the role, and a refusal may
\* come with any of these payloads
MePayloads == {[user |-> [role |-> "admin"]], [user |-> [role |-> "user"]],
               [user |-> [name |-> "n"]], [user |-> NullObject], EmptyObject,
               [error |-> "unauthorized"]}
MeAnswers == {HttpResponse(st, JsonBody(v)) : st \in {200, 401}, v \in MePayloads}
\* the session the notes page is run in: an ordinary user's
UserSession == Ok200([user |-> [role |-> "user"]])

ServerTellsMe(r, net) ==
    /\ r \in Awaiting /\ Method(r) = "GET" /\ Url(r) = <<"/api", "/auth/me">>
    /\ net \in MeAnswers
    /\ inflight' = Answer(r, net)
    /\ UNCHANGED <<events, gone, page, failed>>
    /\ UNCHANGED <<transportVars, serverVars, front>>

\* the server refuses a request and changes nothing
ServerFails(r, body) ==
    /\ r \in Awaiting
    /\ body \in FailBodies
    /\ inflight' = Answer(r, HttpResponse(500, body))
    /\ UNCHANGED <<events, gone, page, failed>>
    /\ UNCHANGED <<transportVars, serverVars, front>>

\* the request never reaches the server: fetch rejects
NetworkFails(r) ==
    /\ r \in Awaiting
    /\ inflight' = Answer(r, NetError)
    /\ UNCHANGED <<events, gone, page, failed>>
    /\ UNCHANGED <<transportVars, serverVars, front>>

(***************************************************************************)
(* The notes page: the state DOMContentLoaded leaves (dashboard.js 2-11,   *)
(* 114, 120) and its steps.                                                *)
(***************************************************************************)
NoCall == [url |-> <<>>]
Idle == [state |-> "idle"]

TransportIdle ==
    /\ tNet = NetError
    /\ tCall = NoCall
    /\ tOut = Idle

ToastIdle ==
    /\ toastText = ""
    /\ toastVisible = FALSE
    /\ toastTimers = 0

CatalogAbsent ==
    /\ searchProducts = ""
    /\ productsGrid = <<>>
    /\ cartItems = <<>>
    /\ cartTotal = ""
    /\ serverCart = <<>>

\* the notes page just loaded, the server holding the notes given
NotesPageLoaded(notes) ==
    /\ TransportIdle
    /\ ToastIdle
    /\ CatalogAbsent
    /\ serverNotes = notes
    /\ noteSeq = Len(notes)
    /\ editingId = Null
    /\ modalHidden = TRUE
    /\ instantHidden = TRUE
    /\ modalShow = FALSE
    /\ modalTimers = <<>>
    /\ editorTitle = ""
    /\ form = EmptyForm
    /\ searchNotes = ""
    /\ notesList = NoCards
    /\ adminLink = "none"
    /\ inflight = Await(Await(EmptyBag, Task("me", Null, ApiGet(<<"/auth/me">>))),
                        Task("loadNotes", Null, ApiGet(NotesPath(""))))
    /\ events = 0
    /\ gone = {}
    /\ page = "notes"
    /\ failed = {}

InitNotes == NotesPageLoaded(<<FirstNote>>)

NoteIdTexts == {ToString(n) : n \in 1..MaxNotes}

\* the identity query of the attach has settled
Identified == \A r \in BagToSet(inflight) : r.h # "me"

\* The steps of the notes page.  The user acts once the identity query has
\* settled, in an ordinary user's session.
NextNotes ==
    \/ Identified /\ NewNoteClick
    \/ Identified /\ TypeForm
    \/ Identified /\ Submit
    \/ Identified /\ ModalCloseClick
    \/ \E id \in NoteIdTexts : Identified /\ EditClick(id)
    \/ \E id \in NoteIdTexts, confirmed \in BOOLEAN : Identified /\ DelClick(id, confirmed)
    \/ \E q \in Queries : Identified /\ SearchNotesInput(q)
    \/ \E i \in 1..MaxModalTimers : ModalTimerFires(i)
    \/ ToastTimerFires
    \/ \E r \in BagToSet(inflight) : PutDone(r)
    \/ \E r \in BagToSet(inflight) : PostDone(r)
    \/ \E r \in BagToSet(inflight) : EditDone(r)
    \/ \E r \in BagToSet(inflight) : DelDone(r)
    \/ \E r \in BagToSet(inflight) : LoadNotesDone(r)
    \/ \E r \in BagToSet(inflight) : MeDone(r)
    \/ \E r \in BagToSet(inflight) : TaskRejected(r)
    \/ \E r \in BagToSet(inflight) : ServerListsNotes(r)
    \/ \E r \in BagToSet(inflight) : ServerCreatesNote(r)
    \/ \E r \in BagToSet(inflight) : ServerUpdatesNote(r)
    \/ \E r \in BagToSet(inflight) : ServerDeletesNote(r)
    \/ \E r \in BagToSet(inflight) : ServerTellsMe(r, UserSession)
    \/ \E r \in BagToSet(inflight), body \in NotesFailBodies : ServerFails(r, body)
    \/ \E r \in BagToSet(inflight) : NetworkFails(r)

SpecNotes == InitNotes /\ [][NextNotes]_vars

(***************************************************************************)
(* CatalogController: api.js 42-84.                                        *)
(***************************************************************************)
ToastAdded == "Dobavleno"                   \* 'Добавлено'
ToastOrdered == "Zakaz oformlen"            \* 'Заказ оформлен'
ToastFailed == "Oshibka"                    \* 'Ошибка'
ToastCleared == "Korzina ochishchena"       \* 'Корзина очищена'
TotalLabel == "Itogo: "                     \* 'Итого: '
Rouble == "R"                               \* the rouble sign
AddLabel == "V korzinu"                     \* 'В корзину'

\* the catalogue of the server
Products == <<[id |-> 1, name |-> "Widget", price |-> 10, category |-> "tools",
               description |-> Null],
              [id |-> 2, name |-> "Gadget", price |-> 5, category |-> Null,
               description |-> "small"]>>
ProductIdTexts == {ToString(Products[i].id) : i \in 1..Len(Products)}
ProductQueries == {"", "Widget"}

\* '/products'+(q?`?q=${encodeURIComponent(q)}`:'')
ProductsPath(q) ==
    IF Truthy(q) THEN <<"/products", "?q=", EncodeURIComponent(q)>> ELSE <<"/products">>

\* one product of the grid (api.js 54-56)
ProductCard(pr) ==
    [h4 |-> pr.name, meta |-> OrElse(pr.category, ""), p |-> OrElse(pr.description, ""),
     price |-> ToString(pr.price) \o Rouble, add |-> ToString(pr.id), label |-> AddLabel]

\* what loadProducts leaves in productsGrid (api.js 52-57)
RenderProducts(res) ==
    IF Has(res, "products")
    THEN [i \in 1..Len(res.products) |-> ProductCard(res.products[i])]
    ELSE <<>>

\* one line of the cart (api.js 64)
CartLineText(i) ==
    i.product.name \o " x " \o ToString(i.quantity) \o " = " \o ToString(i.subtotal)
        \o Rouble

\* what loadCart leaves in cartItems (api.js 62-66)
RenderCartItems(res) ==
    IF Has(res, "items")
    THEN [k \in 1..Len(res.items) |-> CartLineText(res.items[k])]
    ELSE <<>>

\* what loadCart leaves in cartTotal (api.js 67): res.total||0
RenderCartTotal(res) ==
    TotalLabel \o ToString(IF Has(res, "total") THEN res.total ELSE 0) \o Rouble

AddButtons == {productsGrid[i].add : i \in 1..Len(productsGrid)}

\* loadProducts(q) and loadCart() up to their await (api.js 50-51, 60-61)
loadProducts(bag, q) ==
    inflight' = Await(bag, Task("loadProducts", Null, ApiGet(ProductsPath(q))))

loadCart(bag) ==
    inflight' = Await(bag, Task("loadCart", Null, ApiGet(<<"/cart">>)))

\* the notes page's state and the server's, which the catalogue page leaves alone
beside == <<transportVars, serverVars, notesVars>>

\* a plausible slip that is a fix: the response of a superseded search is dropped
LoadProductsDoneIfCurrent(r) ==
    /\ r \in Answered /\ r.h = "loadProducts" /\ Resolves(r)
    /\ inflight' = Without(inflight, r)
    /\ productsGrid' = IF Url(r) = <<"/api">> \o ProductsPath(searchProducts)
                       THEN RenderProducts(ResultOf(r))
                       ELSE productsGrid
    /\ UNCHANGED <<beside, toastVars, searchProducts, cartItems, cartTotal, events, gone, page, failed>>

\* loadProducts after its await (api.js 52-57)
LoadProductsDone(r) ==
    /\ r \in Answered /\ r.h = "loadProducts" /\ Resolves(r)
    /\ inflight' = Without(inflight, r)
    /\ productsGrid' = RenderProducts(ResultOf(r))
    /\ UNCHANGED <<beside, toastVars, searchProducts, cartItems, cartTotal, events, gone, page, failed>>

\* loadCart after its await (api.js 62-67)
LoadCartDone(r) ==
    /\ r \in Answered /\ r.h = "loadCart" /\ Resolves(r)
    /\ inflight' = Without(inflight, r)
    /\ cartItems' = RenderCartItems(ResultOf(r))
    /\ cartTotal' = RenderCartTotal(ResultOf(r))
    /\ UNCHANGED <<beside, toastVars, searchProducts, productsGrid, events, gone, page, failed>>

\* a plausible slip: the quantity posted is not 1
AddTaskTwo(id) ==
    Task("add", id, ApiPost(<<"/cart">>, JsonData([product_id |-> id, quantity |-> 2])))

\* the call the .add click awaits (api.js 72)
AddTask(id) ==
    Task("add", id, ApiPost(<<"/cart">>, JsonData([product_id |-> id, quantity |-> 1])))

\* click on a rendered .add button, up to its await (api.js 70-72)
AddClick(id) ==
    /\ EventRoom
    /\ id \in AddButtons
    /\ InflightRoom
    /\ inflight' = Await(inflight, AddTask(id))
    /\ events' = events + 1 /\ UNCHANGED <<gone, page, failed>>
    /\ UNCHANGED <<beside, toastVars, catalogVars>>

\* a plausible slip: the cart is not loaded again after an add
AddDoneNoReload(r) ==
    /\ r \in Answered /\ r.h = "add" /\ Resolves(r)
    /\ IF ResultOf(r).ok
       THEN /\ ToastRoom
            /\ showToast(ToastAdded)
            /\ inflight' = Without(inflight, r)
       ELSE /\ inflight' = Without(inflight, r)
            /\ UNCHANGED toastVars
    /\ failed' = IF ResultOf(r).ok THEN failed ELSE failed \cup {r.h}
    /\ UNCHANGED <<beside, catalogVars, events, gone, page>>

\* the .add click after api.post (api.js 72)
AddDone(r) ==
    /\ r \in Answered /\ r.h = "add" /\ Resolves(r)
    /\ IF ResultOf(r).ok
       THEN /\ ToastRoom
            /\ showToast(ToastAdded)
            /\ loadCart(Without(inflight, r))
       ELSE /\ inflight' = Without(inflight, r)
            /\ UNCHANGED toastVars
    /\ failed' = IF ResultOf(r).ok THEN failed ELSE failed \cup {r.h}
    /\ UNCHANGED <<beside, catalogVars, events, gone, page>>

\* checkoutBtn click, up to its await (api.js 76-77)
CheckoutClick ==
    /\ EventRoom
    /\ InflightRoom
    /\ inflight' = Await(inflight, Task("checkout", Null, ApiPost(<<"/checkout">>, NoData)))
    /\ events' = events + 1 /\ UNCHANGED <<gone, page, failed>>
    /\ UNCHANGED <<beside, toastVars, catalogVars>>

\* checkoutBtn click after api.post (api.js 77)
CheckoutDone(r) ==
    /\ r \in Answered /\ r.h = "checkout" /\ Resolves(r)
    /\ ToastRoom
    /\ LET res == ResultOf(r)
       IN IF res.ok
          THEN /\ showToast(ToastOrdered)
               /\ loadCart(Without(inflight, r))
          ELSE /\ showToast(OrElse(IF Has(res, "error") THEN res.error ELSE Null,
                                   ToastFailed))
               /\ inflight' = Without(inflight, r)
    /\ failed' = IF ResultOf(r).ok THEN failed ELSE failed \cup {r.h}
    /\ UNCHANGED <<beside, catalogVars, events, gone, page>>

\* clearCartBtn click, up to its await (api.js 79)
ClearClick ==
    /\ EventRoom
    /\ InflightRoom
    /\ inflight' = Await(inflight, Task("clear", Null, ApiPost(<<"/cart/clear">>, NoData)))
    /\ events' = events + 1 /\ UNCHANGED <<gone, page, failed>>
    /\ UNCHANGED <<beside, toastVars, catalogVars>>

\* clearCartBtn click after api.post (api.js 79)
ClearDone(r) ==
    /\ r \in Answered /\ r.h = "clear" /\ Resolves(r)
    /\ IF ResultOf(r).ok
       THEN /\ ToastRoom
            /\ loadCart(Without(inflight, r))
            /\ showToast(ToastCleared)
       ELSE /\ inflight' = Without(inflight, r)
            /\ UNCHANGED toastVars
    /\ failed' = IF ResultOf(r).ok THEN failed ELSE failed \cup {r.h}
    /\ UNCHANGED <<beside, catalogVars, events, gone, page>>

\* search input (api.js 81) and loadProducts up to its await (50-51)
SearchProductsInput(q) ==
    /\ EventRoom
    /\ InflightRoom
    /\ q # searchProducts
    /\ searchProducts' = q
    /\ loadProducts(inflight, q)
    /\ events' = events + 1 /\ UNCHANGED <<gone, page, failed>>
    /\ UNCHANGED <<beside, toastVars, productsGrid, cartItems, cartTotal>>

(***************************************************************************)
(* The server's catalogue and cart, from the resource table of the         *)
(* specification.  The cart holds one line per product.                    *)
(***************************************************************************)
ProductMatches(pr, q) == q = "" \/ q = pr.name
InCart == {i \in 1..Len(Products) : serverCart[i] > 0}
CartLine(i) == [product |-> Products[i], quantity |-> serverCart[i],
                subtotal |-> Products[i].price * serverCart[i]]
RECURSIVE SumOver(_, _)
SumOver(f, S) ==
    IF S = {} THEN 0
    ELSE LET i == CHOOSE x \in S : TRUE IN f[i] + SumOver(f, S \ {i})
CartTotal ==
    SumOver([i \in 1..Len(Products) |-> Products[i].price * serverCart[i]],
            1..Len(Products))
EmptyCart == [i \in 1..Len(Products) |-> 0]

\* GET /products?q=
ServerListsProducts(r) ==
    /\ r \in Awaiting /\ Method(r) = "GET" /\ Url(r)[2] = "/products"
    /\ LET q == QueryOf(Url(r))
       IN inflight' = Answer(r, Ok200(
              [products |-> SelectSeq(Products, LAMBDA pr : ProductMatches(pr, q))]))
    /\ UNCHANGED <<transportVars, serverVars, front, events, gone, page, failed>>

\* GET /cart
ServerShowsCart(r) ==
    /\ r \in Awaiting /\ Method(r) = "GET" /\ Url(r) = <<"/api", "/cart">>
    /\ inflight' = Answer(r, Ok200(
           [items |-> SelectSeq([i \in 1..Len(Products) |-> CartLine(i)],
                                LAMBDA l : l.quantity > 0),
            total |-> CartTotal]))
    /\ UNCHANGED <<transportVars, serverVars, front, events, gone, page, failed>>

\* POST /cart {product_id, quantity}
ServerAddsToCart(r) ==
    /\ r \in Awaiting /\ Method(r) = "POST" /\ Url(r) = <<"/api", "/cart">>
    /\ LET d == r.fetch.opts.body.json
           hit == {i \in 1..Len(Products) : ToString(Products[i].id) = d.product_id}
       IN IF hit = {}
          THEN /\ inflight' = Answer(r, NotFound404)
               /\ UNCHANGED serverCart
          ELSE LET i == CHOOSE x \in hit : TRUE
               IN /\ serverCart[i] + d.quantity <= MaxQty
                  /\ serverCart' = [serverCart EXCEPT ![i] = @ + d.quantity]
                  /\ inflight' = Answer(r, Ok200(EmptyObject))
    /\ UNCHANGED <<transportVars, serverNotes, noteSeq, front, events, gone, page, failed>>

\* POST /cart/clear
ServerClearsCart(r) ==
    /\ r \in Awaiting /\ Method(r) = "POST" /\ Url(r) = <<"/api", "/cart/clear">>
    /\ serverCart' = EmptyCart
    /\ inflight' = Answer(r, Ok200(EmptyObject))
    /\ UNCHANGED <<transportVars, serverNotes, noteSeq, front, events, gone, page, failed>>

\* POST /checkout: an empty cart cannot be ordered
ServerChecksOut(r) ==
    /\ r \in Awaiting /\ Method(r) = "POST" /\ Url(r) = <<"/api", "/checkout">>
    /\ IF InCart = {}
       THEN /\ inflight' = Answer(r, HttpResponse(400, JsonBody([error |-> "cart is empty"])))
            /\ UNCHANGED serverCart
       ELSE /\ serverCart' = EmptyCart
            /\ inflight' = Answer(r, Ok200(EmptyObject))
    /\ UNCHANGED <<transportVars, serverNotes, noteSeq, front, events, gone, page, failed>>

(***************************************************************************)
(* The catalogue page: the state DOMContentLoaded leaves (api.js 43-48,    *)
(* 83) and its steps.                                                      *)
(***************************************************************************)
NotesAbsent ==
    /\ serverNotes = <<>>
    /\ noteSeq = 0
    /\ editingId = Null
    /\ modalHidden = TRUE
    /\ instantHidden = TRUE
    /\ modalShow = FALSE
    /\ modalTimers = <<>>
    /\ editorTitle = ""
    /\ form = EmptyForm
    /\ searchNotes = ""
    /\ notesList = NoCards
    /\ adminLink = "none"

InitCatalog ==
    /\ TransportIdle
    /\ ToastIdle
    /\ NotesAbsent
    /\ serverCart = EmptyCart
    /\ searchProducts = ""
    /\ productsGrid = <<>>
    /\ cartItems = <<>>
    /\ cartTotal = ""
    /\ inflight = Await(Await(EmptyBag, Task("loadProducts", Null, ApiGet(ProductsPath("")))),
                        Task("loadCart", Null, ApiGet(<<"/cart">>)))
    /\ events = 0
    /\ gone = {}
    /\ page = "catalog"
    /\ failed = {}

NextCatalog ==
    \/ \E id \in ProductIdTexts : AddClick(id)
    \/ CheckoutClick
    \/ ClearClick
    \/ \E q \in ProductQueries : SearchProductsInput(q)
    \/ ToastTimerFires
    \/ \E r \in BagToSet(inflight) : LoadProductsDone(r)
    \/ \E r \in BagToSet(inflight) : LoadCartDone(r)
    \/ \E r \in BagToSet(inflight) : AddDone(r)
    \/ \E r \in BagToSet(inflight) : CheckoutDone(r)
    \/ \E r \in BagToSet(inflight) : ClearDone(r)
    \/ \E r \in BagToSet(inflight) : TaskRejected(r)
    \/ \E r \in BagToSet(inflight) : ServerListsProducts(r)
    \/ \E r \in BagToSet(inflight) : ServerShowsCart(r)
    \/ \E r \in BagToSet(inflight) : ServerAddsToCart(r)
    \/ \E r \in BagToSet(inflight) : ServerClearsCart(r)
    \/ \E r \in BagToSet(inflight) : ServerChecksOut(r)
    \/ \E r \in BagToSet(inflight), body \in FailBodies : ServerFails(r, body)
    \/ \E r \in BagToSet(inflight) : NetworkFails(r)

SpecCatalog == InitCatalog /\ [][NextCatalog]_vars

(***************************************************************************)
(* Either page, from its load on: the claims about what both controllers   *)
(* do are settled against the two pages together.                          *)
(***************************************************************************)
InitPages == InitNotes \/ InitCatalog

NextPages ==
    \/ page = "notes" /\ NextNotes
    \/ page = "catalog" /\ NextCatalog

SpecPages == InitPages /\ [][NextPages]_vars

(***************************************************************************)
(* Transport alone: one call of request or of a shorthand, against every   *)
(* answer of the network.                                                  *)
(***************************************************************************)
Statuses == {200, 204, 299, 300, 400, 404, 500}
Payloads == {EmptyObject, [ok |-> TRUE], [ok |-> FALSE],
             [ok |-> FALSE, error |-> "e"], [ok |-> TRUE, error |-> "e"],
             [error |-> "e"], [notes |-> <<>>], [ok |-> FALSE, notes |-> <<>>]}
Bodies == {MalformedBody} \cup {JsonBody(v) : v \in Payloads}
Answers == {NetError} \cup {HttpResponse(st, b) : st \in Statuses, b \in Bodies}
Paths == {<<"/notes">>, <<"/cart">>}
Methods == {"GET", "POST", "PUT", "DELETE"}
Datas == {NoData, JsonData([title |-> "t"]), FormDataOf([file |-> "f"])}

Calls(call) ==
    /\ tOut = Idle
    /\ tCall' = call
    /\ tOut' = Pending
    /\ UNCHANGED <<tNet, inflight, serverVars, front, events, gone, page, failed>>

\* api.request / api.get / api.post / api.put / api.del
CallRequest(p, m, d) == Calls(FetchArgs(p, m, d))
CallGet(p) == Calls(ApiGet(p))
CallPost(p, d) == Calls(ApiPost(p, d))
CallPut(p, d) == Calls(ApiPut(p, d))
CallDel(p) == Calls(ApiDel(p))

\* the call's promise settles (api.js 10-12)
CallSettles ==
    /\ tOut = Pending
    /\ tOut' = Settle(tNet)
    /\ UNCHANGED <<tNet, tCall, inflight, serverVars, front, events, gone, page, failed>>

InitTransport ==
    /\ tNet \in Answers
    /\ tCall = NoCall
    /\ tOut = Idle
    /\ ToastIdle
    /\ NotesAbsent
    /\ CatalogAbsent
    /\ inflight = EmptyBag
    /\ events = 0
    /\ gone = {}
    /\ page = "probe"
    /\ failed = {}

NextTransport ==
    \/ \E p \in Paths, m \in Methods, d \in Datas : CallRequest(p, m, d)
    \/ \E p \in Paths : CallGet(p)
    \/ \E p \in Paths, d \in Datas : CallPost(p, d)
    \/ \E p \in Paths, d \in Datas : CallPut(p, d)
    \/ \E p \in Paths : CallDel(p)
    \/ CallSettles

SpecTransport == InitTransport /\ [][NextTransport]_vars

(***************************************************************************)
(* The attach of the notes page: the identity query and the first load of  *)
(* the list, against every answer the server or the network may give.      *)
(***************************************************************************)
NextAttach ==
    \/ \E r \in BagToSet(inflight), net \in MeAnswers : ServerTellsMe(r, net)
    \/ \E r \in BagToSet(inflight) : ServerListsNotes(r)
    \/ \E r \in BagToSet(inflight), body \in FailBodies : ServerFails(r, body)
    \/ \E r \in BagToSet(inflight) : NetworkFails(r)
    \/ \E r \in BagToSet(inflight) : MeDone(r)
    \/ \E r \in BagToSet(inflight) : LoadNotesDone(r)
    \/ \E r \in BagToSet(inflight) : TaskRejected(r)
    \/ \E q \in Queries : SearchNotesInput(q)

SpecAttach == InitNotes /\ [][NextAttach]_vars

(***************************************************************************)
(* The preview probe: the notes page loaded against a server whose one     *)
(* note has a content of a length around PreviewLen, and the steps that    *)
(* load and render the list.                                               *)
(***************************************************************************)
\* a text of n characters, the k-th being the last digit of k
Digits == "1234567890"
RECURSIVE TextOf(_)
TextOf(n) == IF n < Len(Digits) THEN SubSeq(Digits, 1, n) ELSE Digits \o TextOf(n - Len(Digits))
ContentLengths == {0, 1, PreviewLen - 1, PreviewLen, PreviewLen + 1, 2 * PreviewLen}
Contents == {TextOf(n) : n \in ContentLengths}

InitPreview ==
    \E c \in Contents : NotesPageLoaded(<<[FirstNote EXCEPT !.content = c]>>)

NextPreview ==
    \/ \E q \in Queries : Identified /\ SearchNotesInput(q)
    \/ \E r \in BagToSet(inflight) : ServerListsNotes(r)
    \/ \E r \in BagToSet(inflight) : LoadNotesDone(r)
    \/ \E r \in BagToSet(inflight) : ServerTellsMe(r, UserSession)
    \/ \E r \in BagToSet(inflight) : MeDone(r)

SpecPreview == InitPreview /\ [][NextPreview]_vars

(***************************************************************************)
(* Properties.                                                             *)
(***************************************************************************)
TaskCount(bag, t) == IF t \in DOMAIN bag THEN bag[t] ELSE 0
\* the step resumes the task that awaited r
Resumed(r) == TaskCount(inflight', r) = TaskCount(inflight, r) - 1
\* the step starts one more await of t
Started(t) == TaskCount(inflight', t) = TaskCount(inflight, t) + 1
CallSettled == tOut.state \in {"fulfilled", "rejected"}
IdOf(n) == ToString(n.id)

\* C1: editingId is non-null only while the editor modal is not hidden and
\* only when it names a note the server has; with the modal hidden it is null.
EditingIdOnlyWhileOpen ==
    editingId # Null => (~modalHidden /\ HasNote(editingId))

\* C2: a call whose fetch fails at the network resolves to a Result with
\* ok = false; it never rejects.
NetworkFailureResolves ==
    (CallSettled /\ tNet.kind = "neterr") =>
        (tOut.state = "fulfilled" /\ tOut.value.ok = FALSE)

\* C3: for every response, the Result's ok is (status in 200..299), whatever
\* ok the payload carries, and every other field of the payload is kept.
OkIsTheStatus ==
    (CallSettled /\ tNet.kind = "http") =>
        /\ tOut.state = "fulfilled"
        /\ tOut.value.ok = (tNet.status \in 200..299)
        /\ tNet.body.parses =>
              /\ DOMAIN tOut.value = (DOMAIN tNet.body.value) \cup {"ok"}
              /\ \A f \in (DOMAIN tNet.body.value) \ {"ok"} :
                    tOut.value[f] = tNet.body.value[f]

\* C3, its case: a success whose payload says ok: false and carries an error
OkSupersedesPayload ==
    /\ tOut.state = "fulfilled"
    /\ tNet.kind = "http" /\ tNet.status = 200
    /\ tNet.body.parses /\ tNet.body.value = [ok |-> FALSE, error |-> "e"]
    /\ tOut.value = [ok |-> TRUE, error |-> "e"]

\* C4: a body that is no JSON does not fail the call: the Result is the empty
\* object tagged with ok alone, and ok is still the status's.
MalformedBodyGivesEmptyResult ==
    (CallSettled /\ tNet.kind = "http" /\ ~tNet.body.parses) =>
        tOut = Fulfilled([ok |-> (tNet.status \in 200..299)])

\* C4, its cases: a malformed body under a success and under a failure
MalformedBodySettled ==
    /\ tNet.kind = "http" /\ ~tNet.body.parses /\ tNet.status = 500
    /\ tOut = Fulfilled([ok |-> FALSE])

\* the tasks one step starts: exactly one await more, and t is it
StartsOnly(t) ==
    /\ Started(t)
    /\ BagCardinality(inflight') = BagCardinality(inflight) + 1
    /\ \A u \in BagToSet(inflight) : TaskCount(inflight', u) >= TaskCount(inflight, u)
\* the server's answer net to r arrives in this step
AnsweredNow(r, net) ==
    /\ TaskCount(inflight', r) = TaskCount(inflight, r) - 1
    /\ Started([r EXCEPT !.net = net])
IsNotesMutation(r) ==
    \/ Method(r) = "POST" /\ Url(r) = <<"/api", "/notes">>
    \/ Method(r) \in {"PUT", "DELETE"} /\ Len(Url(r)) = 3 /\ Url(r)[2] = "/notes/"
IsNotesGet(r) == Method(r) = "GET" /\ Url(r)[2] = "/notes"
IsCartMutation(r) ==
    /\ Method(r) = "POST"
    /\ Url(r) \in {<<"/api", "/cart">>, <<"/api", "/cart/clear">>, <<"/api", "/checkout">>}
\* the URL of the note list for the search text q
NotesUrl(q) ==
    IF q = "" THEN <<"/api", "/notes">>
    ELSE <<"/api", "/notes", "?q=", IF q = "first note" THEN "first%20note" ELSE q>>

\* C5: an edit of note N whose fetch finds N opens the editor on N with the
\* form holding N's fetched fields; a submit while editingId = N starts one
\* PUT of the form to /notes/N and nothing else; and when that PUT succeeds
\* the editor is closed by closeModalFn, with editingId null.
EditSessionUpdatesItsNote ==
    [][ /\ \A r \in BagToSet(inflight) :
              (EditDone(r) /\ FindNote(ResultOf(r), r.arg) # 0) =>
                  \E i \in 1..Len(ResultOf(r).notes) :
                      LET n == ResultOf(r).notes[i]
                      IN /\ IdOf(n) = r.arg
                         /\ editingId' = IdOf(n)
                         /\ ~modalHidden'
                         /\ editorTitle' = TitleEdit
                         /\ form' = [title |-> n.title, content |-> n.content,
                                     tags |-> IF n.tags = Null THEN "" ELSE n.tags]
        /\ (Submit /\ Truthy(editingId)) =>
              /\ \E t \in BagToSet(inflight') :
                    /\ StartsOnly(t)
                    /\ t.net = NoResp
                    /\ Method(t) = "PUT"
                    /\ Url(t) = <<"/api", "/notes/", editingId>>
                    /\ t.fetch.opts.body = [json |-> form]
              /\ UNCHANGED <<editingId, form, modalHidden, serverNotes>>
        /\ \A r \in BagToSet(inflight) :
              (PutDone(r) /\ ResultOf(r).ok) =>
                  /\ editingId' = Null
                  /\ ~modalShow'
                  /\ form' = EmptyForm
                  /\ modalTimers' = Append(modalTimers, "hidden")
      ]_vars

\* C5, its case: note 1 was edited, the typed form was put to it, the put
\* succeeded and the editor is closed
EditedAndClosed ==
    /\ toastText = ToastUpdated
    /\ editingId = Null /\ modalHidden
    /\ Len(serverNotes) = 1
    /\ serverNotes[1] = [id |-> 1, title |-> TypedForm.title,
                         content |-> TypedForm.content, tags |-> TypedForm.tags]

\* C6: when an add, clear or checkout call resumes with ok, the step starts
\* a GET /cart; and the cart display changes only in a step that resumes a
\* GET /cart, to what that response renders.
CartRefetchedAfterMutation ==
    [][ /\ \A r \in Answered :
              (IsCartMutation(r) /\ Resumed(r) /\ Resolves(r) /\ ResultOf(r).ok) =>
                  \E t \in BagToSet(inflight') :
                      /\ Started(t) /\ t.net = NoResp
                      /\ Method(t) = "GET" /\ Url(t) = <<"/api", "/cart">>
        /\ (cartItems' # cartItems \/ cartTotal' # cartTotal) =>
              \E r \in Answered :
                  /\ Resumed(r) /\ Resolves(r)
                  /\ Method(r) = "GET" /\ Url(r) = <<"/api", "/cart">>
                  /\ cartItems' = RenderCartItems(ResultOf(r))
                  /\ cartTotal' = RenderCartTotal(ResultOf(r))
      ]_vars

\* C6, its case: after a successful add the re-fetched cart is on display
AddedCartShown ==
    /\ toastText = ToastAdded
    /\ cartItems = <<"Widget x 1 = 10R">>
    /\ cartTotal = "Itogo: 10R"
    /\ BagToSet(inflight) = {}

\* C7: when a note create, update or delete resumes with ok, the step starts
\* a GET of the note list for the search input's value at that moment; and
\* notesList changes only in a step that resumes a GET /notes, to what that
\* response renders.
NotesRefetchedAfterMutation ==
    [][ /\ \A r \in Answered :
              (IsNotesMutation(r) /\ Resumed(r) /\ Resolves(r) /\ ResultOf(r).ok) =>
                  \E t \in BagToSet(inflight') :
                      /\ Started(t) /\ t.net = NoResp
                      /\ Method(t) = "GET" /\ Url(t) = NotesUrl(searchNotes)
                      /\ searchNotes' = searchNotes
        /\ notesList' # notesList =>
              \E r \in Answered :
                  /\ Resumed(r) /\ Resolves(r) /\ IsNotesGet(r)
                  /\ notesList' = RenderNotes(ResultOf(r))
      ]_vars

\* C7, its case: a delete succeeded while the search box held a query, and
\* the list is being fetched again for that query
RefetchWithQuery ==
    /\ searchNotes = "first note"
    /\ toastText = ToastDeleted
    /\ \E t \in Awaiting : Method(t) = "GET" /\ Url(t) = NotesUrl("first note")

\* C8: a declined delete starts no request and leaves the server's notes and
\* the rendered list as they were; a confirmed delete of N asks the server
\* to delete N, and once the page has seen it succeed N is not on the server
\* and is in no note list the server answers from then on.
DeleteOnlyWhenConfirmed ==
    [][ /\ \A id \in NoteIdTexts :
              DelClick(id, FALSE) => UNCHANGED <<inflight, serverNotes, notesList>>
        /\ \A id \in NoteIdTexts :
              DelClick(id, TRUE) =>
                  \E t \in BagToSet(inflight') :
                      /\ StartsOnly(t) /\ t.net = NoResp
                      /\ Method(t) = "DELETE" /\ Url(t) = <<"/api", "/notes/", id>>
        /\ \A id \in gone' : ~\E i \in 1..Len(serverNotes') : IdOf(serverNotes'[i]) = id
        /\ \A t \in BagToSet(inflight') :
              (IsNotesGet(t) /\ t.net # NoResp /\ Started(t) /\ Resolves(t)
                  /\ Has(ResultOf(t), "notes")) =>
                  \A i \in 1..Len(ResultOf(t).notes) : IdOf(ResultOf(t).notes[i]) \notin gone
      ]_vars

\* C8, its case: the delete of note 1 was confirmed and succeeded, and the
\* list loaded after it shows no note
DeletedAndReloaded ==
    /\ gone = {"1"}
    /\ serverNotes = <<>>
    /\ notesList = PlaceholderOnly
    /\ BagToSet(inflight) = {}

\* C9: a create results in exactly one POST /notes: no second POST /notes is
\* in flight while the first is.
OneCreateOnePost ==
    \A r, u \in BagToSet(inflight) :
        (Method(r) = "POST" /\ Url(r) = <<"/api", "/notes">>
            /\ Method(u) = "POST" /\ Url(u) = <<"/api", "/notes">>) =>
            (r = u /\ inflight[r] = 1)

\* C10: an add click for pid starts exactly one POST /cart of
\* {product_id: pid, quantity: 1}; the server's answer ok to it comes with
\* pid's quantity raised by exactly 1 and every other line as it was; and a
\* cart load shows each line with the quantity of the response.
AddPostsQuantityOne ==
    [][ /\ \A id \in ProductIdTexts :
              AddClick(id) =>
                  \E t \in BagToSet(inflight') :
                      /\ StartsOnly(t) /\ t.net = NoResp
                      /\ Method(t) = "POST" /\ Url(t) = <<"/api", "/cart">>
                      /\ t.fetch.opts.body = [json |-> [product_id |-> id, quantity |-> 1]]
        /\ \A r \in Awaiting :
              (r.h = "add" /\ AnsweredNow(r, Ok200(EmptyObject))) =>
                  \A i \in 1..Len(Products) :
                      serverCart'[i] = serverCart[i]
                          + (IF ToString(Products[i].id) = r.arg THEN 1 ELSE 0)
        /\ \A r \in Answered :
              (LoadCartDone(r) /\ Has(ResultOf(r), "items")) =>
                  /\ Len(cartItems') = Len(ResultOf(r).items)
                  /\ \A k \in 1..Len(cartItems') :
                        LET l == ResultOf(r).items[k]
                        IN cartItems'[k] = l.product.name \o " x " \o ToString(l.quantity)
                               \o " = " \o ToString(l.subtotal) \o "R"
      ]_vars

\* C10, its case: two adds of product 1 succeeded and the cart loaded after
\* them shows one line with quantity 2
TwoAddsOneLine ==
    /\ serverCart = <<2, 0>>
    /\ cartItems = <<"Widget x 2 = 20R">>
    /\ toastText = ToastAdded
    /\ BagToSet(inflight) = {}

\* the step starts a GET /cart
CartReloadStarted ==
    \E t \in BagToSet(inflight') :
        /\ Started(t) /\ t.net = NoResp
        /\ Method(t) = "GET" /\ Url(t) = <<"/api", "/cart">>
\* the step makes one notification, of msg
NotifiedOnce(msg) ==
    /\ toastTimers' = toastTimers + 1
    /\ toastVisible'
    /\ toastText' = msg
\* the message a failed checkout is to show: the server's error if the
\* answer carries one, the generic message otherwise
CheckoutFailureText(net) ==
    IF net.kind = "http" /\ net.body.parses /\ Has(net.body.value, "error")
        /\ Truthy(net.body.value.error)
    THEN net.body.value.error
    ELSE ToastFailed

\* C11: the step that ends a checkout action makes exactly one notification:
\* after a success the success message, with a cart reload started; after a
\* failure (a non-success status, or a failure of the network) the server's
\* error message if there is one, else the generic message, and no reload.
CheckoutNotifiesOnce ==
    [][ \A r \in Answered :
            (r.h = "checkout" /\ Resumed(r)) =>
                IF r.net.kind = "http" /\ ResOk(r.net.status)
                THEN NotifiedOnce(ToastOrdered) /\ CartReloadStarted
                ELSE NotifiedOnce(CheckoutFailureText(r.net)) /\ ~CartReloadStarted
      ]_vars

\* C11, with the failure of the network left out: every checkout that gets
\* an answer of the server ends in its one notification
AnsweredCheckoutNotifiesOnce ==
    [][ \A r \in Answered :
            (r.h = "checkout" /\ Resumed(r) /\ r.net.kind = "http") =>
                IF ResOk(r.net.status)
                THEN NotifiedOnce(ToastOrdered) /\ CartReloadStarted
                ELSE NotifiedOnce(CheckoutFailureText(r.net)) /\ ~CartReloadStarted
      ]_vars

\* the handlers that do nothing about a failure
SilentHandlers == {"add", "clear", "post", "put", "del"}

\* C12: when the call of an add-to-cart, clear-cart, note create, update or
\* delete returns a Result with ok false, the step that resumes its handler
\* only ends the task: no notification, no request started, and the notes
\* view (modal, editingId, form, list) and the catalogue view as they were.
FailedCallChangesNothing ==
    [][ \A r \in Answered :
            (r.h \in SilentHandlers /\ Resumed(r)
                /\ r.net.kind = "http" /\ ~ResOk(r.net.status)) =>
                /\ inflight' = Without(inflight, r)
                /\ UNCHANGED <<toastVars, notesVars, catalogVars>>
      ]_vars

\* C12, its case: a create failed and the editor is still open on the typed
\* form, nothing notified and nothing in flight
FailedSubmitLeftOpen ==
    /\ "post" \in failed
    /\ ~modalHidden /\ editingId = Null /\ form = TypedForm
    /\ toastText = ""
    /\ BagToSet(inflight) = {}

\* the note of the server that a rendered card shows
NoteOfCard(card) ==
    CHOOSE n \in {serverNotes[i] : i \in 1..Len(serverNotes)} : ToString(n.id) = card.edit

\* C13: the preview of every rendered card is its note's content unchanged
\* when the content has at most 150 characters, and otherwise the first 150
\* characters of the content followed by "...": three characters more than
\* 150, so the ellipsis is there if and only if the content is longer.
PreviewCutsAt150 ==
    \A i \in 1..Len(notesList.cards) :
        LET p == notesList.cards[i].p
            c == NoteOfCard(notesList.cards[i]).content
        IN /\ Len(c) <= 150 => p = c
           /\ Len(c) > 150 =>
                 /\ Len(p) = 153
                 /\ SubSeq(p, 1, 150) = SubSeq(c, 1, 150)
                 /\ SubSeq(p, 151, 153) = "..."

\* C13, its case: a content of 151 characters is on display, cut
PreviewCutShown ==
    /\ Len(notesList.cards) = 1
    /\ Len(serverNotes[1].content) = 151
    /\ notesList.cards[1].p = TextOf(150) \o "..."

\* C13, the other side of the bound: a content of 150 characters is on
\* display whole
PreviewWholeShown ==
    /\ Len(notesList.cards) = 1
    /\ Len(serverNotes[1].content) = 150
    /\ notesList.cards[1].p = serverNotes[1].content

\* C14: the modal's visibility is that of a modal which opens and closes at
\* once, but for the delay of the close: while the instant modal is open the
\* modal is not hidden (a close timer left pending by an earlier close does
\* not hide a modal opened since), and once no modal timer is pending the
\* modal is hidden exactly when the instant modal is closed.
ModalMatchesInstantClose ==
    /\ ~instantHidden => ~modalHidden
    /\ modalTimers = <<>> => modalHidden = instantHidden

\* the editor's state in the specification's state machine
EditorState ==
    IF instantHidden THEN "Closed"
    ELSE IF editingId = Null THEN "OpenNew"
    ELSE "OpenEdit " \o editingId

\* C15: every change of the editor's state goes from Closed or to Closed:
\* no step takes it from OpenNew to OpenEdit(id), from OpenEdit(id) to
\* OpenNew or from OpenEdit(a) to OpenEdit(b).
EditorPassesThroughClosed ==
    [][ EditorState' # EditorState =>
            (EditorState = "Closed" \/ EditorState' = "Closed") ]_vars

IsListLoad(r) == r.h \in {"loadNotes", "loadProducts"}

\* C16: a step that changes a search box takes no list request out of the
\* fetches in flight, and every list request that completes with a response
\* overwrites its list with what that response renders, whatever the search
\* box holds by then.
SearchNeverCancelled ==
    [][ /\ (searchNotes' # searchNotes \/ searchProducts' # searchProducts) =>
              \A r \in BagToSet(inflight) :
                  IsListLoad(r) => TaskCount(inflight', r) >= TaskCount(inflight, r)
        /\ \A r \in Answered :
              (r.h = "loadNotes" /\ Resumed(r) /\ r.net.kind = "http") =>
                  notesList' = RenderNotes(ResultOf(r))
        /\ \A r \in Answered :
              (r.h = "loadProducts" /\ Resumed(r) /\ r.net.kind = "http") =>
                  productsGrid' = RenderProducts(ResultOf(r))
      ]_vars

\* C16, its case: every request has completed, the search box holds
\* "Widget", and the grid shows the whole catalogue, the answer to the
\* older, empty query
StaleProductsShown ==
    /\ page = "catalog"
    /\ searchProducts = "Widget"
    /\ BagToSet(inflight) = {}
    /\ Len(productsGrid) = Len(Products)

\* C16, its case on the notes page: the search box holds "first note" and
\* the list shows a note that does not match it
StaleNotesShown ==
    /\ page = "notes"
    /\ searchNotes = "first note"
    /\ BagToSet(inflight) = {}
    /\ \E i \in 1..Len(notesList.cards) : notesList.cards[i].h3 # "first note"

\* C17: the toast's text changes, and a timer is added, only in a step that
\* calls showToast; such a step leaves the region visible and one timer more
\* pending, none cancelled; the text a handler's call leaves is its own; a
\* step in which a timer fires takes one timer away and hides the region,
\* whatever is pending still, and leaves the text; and with no timer pending
\* the region is hidden.
ToastLastWinsAnyTimerHides ==
    /\ [](toastTimers = 0 => ~toastVisible)
    /\ [][ /\ (toastText' # toastText \/ toastTimers' > toastTimers) =>
                (toastVisible' /\ toastTimers' = toastTimers + 1)
           /\ toastTimers' < toastTimers =>
                (toastTimers' = toastTimers - 1 /\ ~toastVisible'
                    /\ toastText' = toastText)
           /\ \A r \in Answered :
                 /\ (AddDone(r) /\ ResultOf(r).ok) => NotifiedOnce(ToastAdded)
                 /\ (ClearDone(r) /\ ResultOf(r).ok) => NotifiedOnce(ToastCleared)
                 /\ (CheckoutDone(r) /\ ResultOf(r).ok) => NotifiedOnce(ToastOrdered)
         ]_vars

\* C17, its case: two toasts were shown, the first one's timer has fired and
\* hidden the second one's message while the second one's timer is pending
LaterToastHiddenEarly ==
    /\ toastTimers = 1
    /\ ~toastVisible
    /\ toastText = ToastCleared

\* the answer says: success, and a user whose role is administrator
SaysAdmin(net) ==
    /\ net.kind = "http" /\ net.status \in 200..299
    /\ net.body.parses
    /\ "user" \in DOMAIN net.body.value
    /\ net.body.value.user \in {[role |-> "admin"]}

\* C18: the admin link is hidden when the page is attached, and the only
\* step that changes it is the one that resumes the identity query on an
\* answer that says success and a user whose role is administrator; that
\* step reveals it.  After any other answer, or none, it stays hidden.
AdminLinkOnlyForAdmin ==
    /\ adminLink = "none"
    /\ [](adminLink = "block" => \A r \in BagToSet(inflight) : r.h # "me")
    /\ [][ /\ adminLink' # adminLink =>
                (adminLink' = "block"
                    /\ \E r \in Answered : r.h = "me" /\ Resumed(r) /\ SaysAdmin(r.net))
           /\ \A r \in Answered :
                 (r.h = "me" /\ Resumed(r) /\ ~SaysAdmin(r.net)) => adminLink' = "none"
         ]_vars

\* C18, its case: the identity query has settled and the link is revealed
AdminLinkRevealed ==
    /\ adminLink = "block"
    /\ \A r \in BagToSet(inflight) : r.h # "me"

\* C18, the other case: the identity query has settled and the link is hidden
AdminLinkWithheld ==
    /\ adminLink = "none"
    /\ \A r \in BagToSet(inflight) : r.h # "me"

\* the lines and the total a display of the server's cart as it is now shows
ServerCartLines ==
    LET shown == SelectSeq([i \in 1..Len(Products) |-> i], LAMBDA i : serverCart[i] > 0)
    IN [k \in 1..Len(shown) |->
           Products[shown[k]].name \o " x " \o ToString(serverCart[shown[k]]) \o " = "
               \o ToString(Products[shown[k]].price * serverCart[shown[k]]) \o "R"]
ServerCartTotal == "Itogo: " \o ToString(CartTotal) \o "R"

\* the catalogue page has no request in flight
CatalogQuiescent == page = "catalog" /\ BagToSet(inflight) = {}

\* C19: whenever the catalogue page is quiescent, the cart on display (its
\* lines and its total) is the server's cart as it is now.
QuiescentCartIsServerCart ==
    CatalogQuiescent => (cartItems = ServerCartLines /\ cartTotal = ServerCartTotal)

====
